---- MODULE Spec2Model ----
(***************************************************************************)
(* overwatch_spotify: a poll loop classifies the screen into a GameState,  *)
(* and on every change of state runs the configured list of Spotify        *)
(* playback commands through SpotifyClient.                                *)
(*                                                                         *)
(* The model follows src/overwatch_spotify.py (load_config, setup, main,   *)
(* handle_event, try_spotify_function), src/lib/spotify_lib.py             *)
(* (SpotifyClient) and src/lib/overwatch_lib.py (get_state).  Every HTTP   *)
(* exchange is one step: the request is sent by the step that reaches the  *)
(* blocking call, the server's answer is the input of the next step.       *)
(*                                                                         *)
(* Not modelled: action entries whose argument count does not fit the      *)
(* operation (TypeError), configuration files that are valid JSON but not  *)
(* an object of {"actions": [...]} values, response bodies that are not    *)
(* JSON, and SIGINT.                                                       *)
(***************************************************************************)
EXTENDS Integers, Sequences, FiniteSets, TLC

VARIABLES
    pc,            \* position of the single thread of control
    CONFIG,        \* overwatch_spotify.CONFIG: state name -> action list
    client,        \* the SpotifyClient object's fields
    last_state,    \* main's last_state
    event,         \* handle_event's event_name
    idx,           \* handle_event's position in the action list (1-based)
    calls,         \* operations invoked by the current handle_event, in order
    op,            \* the operation in progress: its name and arguments
    tries,         \* _send_common_request's loop variable
    res,           \* status code of the last response received
    sent,          \* requests sent by the operation in progress / last run
    slept,         \* time.sleep(5) calls of that operation
    req,           \* the last request sent: url and query parameters
    first,         \* status code of the first response of the operation
    saw401,        \* some response to the operation carried 401
    all202,        \* every response to the operation so far carried 202
    outcome,       \* how the last operation ended: returned or raised
    logged,        \* 'unhandled error' entries logged for the last operation
    raised,        \* the exception that ended the process or the call, if any
    tres,          \* the last answer of the token endpoint to the call in progress
    posts,         \* token-endpoint requests sent by authenticate()/refresh()
    before,        \* the client's fields when refresh() was entered
    probe          \* a get_state() call looked at on its own: screen, rules run, result

vars == <<pc, CONFIG, client, last_state, event, idx, calls, op, tries, res,
          sent, slept, req, first, saw401, all202, outcome, logged, raised,
          tres, posts, before, probe>>

\* The variables only authenticate(), refresh() and a lone get_state() touch.
aux == <<tres, posts, before, probe>>

(***************************************************************************)
(* Bounds                                                                  *)
(***************************************************************************)
\* Total number of action entries in a configuration file.
MaxCfgActions == 2

None == "None"

(***************************************************************************)
(* overwatch_lib: classification                                           *)
(***************************************************************************)
GameState == {"UNKNOWN", "IN_MENU", "WAITING", "CHARACTER_SELECT"}

Rules == {"in_menu", "waiting", "character_select"}

\* Every rule samples four pixels.
NumPixels == 4

\* A sample, seen through the rules: the number of mismatching pixels per rule.
Samples == [Rules -> 0..NumPixels]

_in_menu(errors) == errors < 2

\* The waiting rule allowing one mismatch.
_waiting_Inclusive(errors) == errors <= 1

_waiting(errors) == errors < 1

_in_character_select(errors) == errors < 2

get_state(s) ==
    IF _in_menu(s["in_menu"]) THEN "IN_MENU"
    ELSE IF _waiting(s["waiting"]) THEN "WAITING"
    ELSE IF _in_character_select(s["character_select"]) THEN "CHARACTER_SELECT"
    ELSE "UNKNOWN"

\* What get_state can return, over all samples.
Classifications == {get_state(s) : s \in Samples}

state_map(g) ==
    CASE g = "UNKNOWN" -> "unknown"
      [] g = "IN_MENU" -> "main_menu"
      [] g = "WAITING" -> "waiting"
      [] g = "CHARACTER_SELECT" -> "character_select"

(***************************************************************************)
(* Configuration                                                           *)
(***************************************************************************)
\* Action entries a configuration file may hold: the three operations, an
\* entry naming no operation, and the empty (null) entry.
Actions == {<<"set_volume", 80>>, <<"play">>, <<"pause">>, <<"skip">>, <<>>}

FileKeys == {"main_menu", "waiting", "character_select", "unknown"}

\* The entries of a file, flattened: (state name, action) pairs in file order.
FileEntries == UNION {[1..n -> FileKeys \X Actions] : n \in 0..MaxCfgActions}

ActionsOf(entries, k) ==
    LET RECURSIVE pick(_)
        pick(i) == IF i > Len(entries) THEN <<>>
                   ELSE IF entries[i][1] = k THEN <<entries[i][2]>> \o pick(i + 1)
                   ELSE pick(i + 1)
    IN pick(1)

\* A parsed configuration file: the keys it holds (with or without entries).
ConfigFile(keys, entries) ==
    [k \in keys \cup {entries[i][1] : i \in 1..Len(entries)} |-> ActionsOf(entries, k)]

DefaultConfig ==
    [k \in {"main_menu", "waiting", "character_select"} |->
        CASE k = "main_menu" -> <<<<"set_volume", 80>>, <<"play">>>>
          [] k = "waiting" -> <<<<"set_volume", 80>>>>
          [] k = "character_select" -> <<<<"pause">>>>]

\* load_config on a file that parses: the file's mapping, 'unknown' overwritten.
LoadedConfig(file) ==
    [k \in DOMAIN file \cup {"unknown"} |-> IF k = "unknown" THEN <<>> ELSE file[k]]

(***************************************************************************)
(* spotify_lib: the request routine                                        *)
(***************************************************************************)
StatusCodes == {200, 202, 204, 401, 403, 404, 500}

Returned == [kind |-> "ok", msg |-> ""]

Raise(kind, msg) == [kind |-> kind, msg |-> msg]

NoOutcome == [kind |-> None, msg |-> ""]

Url(name) ==
    CASE name = "play" -> "api.spotify.com/v1/me/player/play"
      [] name = "pause" -> "api.spotify.com/v1/me/player/pause"
      [] name = "set_volume" -> "api.spotify.com/v1/me/player/volume"

ErrorMsg(name) ==
    CASE name = "play" -> "Unable to play"
      [] name = "pause" -> "Unable to pause"
      [] name = "set_volume" -> "Unable to set volume"

\* The query parameters play/pause/set_volume hand to _send_common_request.
Params(o) == IF o[1] = "set_volume" THEN <<"volume_percent", o[2]>> ELSE <<>>

\* The first request carries the parameters; the request of the retry loop
\* is sent without them.
FirstRequest(o) == [url |-> Url(o[1]), params |-> Params(o)]

RetryRequest(o) == [url |-> Url(o[1]), params |-> <<>>]

NoRequest == [url |-> None, params |-> <<>>]

\* Variant: the guard on self.authenticated is missing.
MaySend_Unguarded(c) == TRUE

\* _send_common_request's guard: a request goes out only when authenticated.
MaySend(c) == c.authenticated

\* Variant: the loop gives up one pass early.
LastTry_OnePassEarly(t) == t = 3

\* range(5): the loop variable runs over 0..4 and the last pass raises.
LastTry(t) == t = 4

\* Variant: the loop is left on any success code, not only on 204.
BreaksLoop_AnySuccess(status_code) == status_code \in {200, 204}

\* `if res.status_code == 204: break`
BreaksLoop(status_code) == status_code = 204

\* Variant: the 403 branch is missing, so 403 falls through to the last branch.
ParseCommonStatus_No403(authenticated, status_code, error_msg) ==
    IF status_code = 204 THEN
        [authenticated |-> authenticated, out |-> Returned]
    ELSE IF status_code = 404 THEN
        [authenticated |-> authenticated,
         out |-> Raise("RequestFailedError", "Playback device not found")]
    ELSE IF status_code = 401 THEN
        [authenticated |-> FALSE, out |-> Raise("InvalidTokenError", "access_token is invalid")]
    ELSE
        [authenticated |-> authenticated,
         out |-> Raise("RequestFailedError", "Unhandled response code")]

\* _parse_common_status: the outcome and the authenticated flag afterwards.
ParseCommonStatus(authenticated, status_code, error_msg) ==
    IF status_code = 204 THEN
        [authenticated |-> authenticated, out |-> Returned]
    ELSE IF status_code = 404 THEN
        [authenticated |-> authenticated,
         out |-> Raise("RequestFailedError", "Playback device not found")]
    ELSE IF status_code = 403 THEN
        [authenticated |-> authenticated, out |-> Raise("RequestFailedError", error_msg)]
    ELSE IF status_code = 401 THEN
        [authenticated |-> FALSE, out |-> Raise("InvalidTokenError", "access_token is invalid")]
    ELSE
        [authenticated |-> authenticated,
         out |-> Raise("RequestFailedError", "Unhandled response code")]

(***************************************************************************)
(* overwatch_spotify: dispatch                                             *)
(***************************************************************************)
CFG_MAP ==
    [n \in {"set_volume", "play", "pause"} |-> [func |-> n, handled_errors |-> {ErrorMsg(n)}]]

\* Variant: the message is not compared with handled_errors; every
\* RequestFailedError is logged as unhandled.
TrySpotifyFunction_NoHandledErrors(out, handled_errors) ==
    IF out.kind = "ok" THEN [raised |-> None, logged |-> 0]
    ELSE IF out.kind = "InvalidTokenError" THEN [raised |-> None, logged |-> 0]
    ELSE IF out.kind = "RequestFailedError" THEN [raised |-> None, logged |-> 1]
    ELSE [raised |-> out.kind, logged |-> 0]

\* Variant: the `except sl.InvalidTokenError` clause is missing.
TrySpotifyFunction_TokenUncaught(out, handled_errors) ==
    IF out.kind = "ok" THEN [raised |-> None, logged |-> 0]
    ELSE IF out.kind = "RequestFailedError" THEN
        [raised |-> None, logged |-> IF out.msg \in handled_errors THEN 0 ELSE 1]
    ELSE [raised |-> out.kind, logged |-> 0]

\* try_spotify_function on an operation that ended with `out`: the exception
\* that leaves it (None when it returns) and the 'unhandled' entries it logs.
TrySpotifyFunction(out, handled_errors) ==
    IF out.kind = "ok" THEN [raised |-> None, logged |-> 0]
    ELSE IF out.kind = "InvalidTokenError" THEN [raised |-> None, logged |-> 0]
    ELSE IF out.kind = "RequestFailedError" THEN
        [raised |-> None, logged |-> IF out.msg \in handled_errors THEN 0 ELSE 1]
    ELSE [raised |-> out.kind, logged |-> 0]

\* handle_event's body for one action whose operation ended with `out`,
\* leaving the authenticated flag at `auth`.
Finish(action, out, auth) ==
    LET h == TrySpotifyFunction(out, CFG_MAP[action[1]].handled_errors) IN
    /\ outcome' = out
    /\ logged' = h.logged
    /\ client' = [client EXCEPT !.authenticated = auth]
    /\ IF h.raised # None
       THEN /\ pc' = "crashed"
            /\ raised' = h.raised
            /\ idx' = idx
       ELSE /\ pc' = "handle_event"
            /\ raised' = raised
            /\ idx' = idx + 1

\* Entering handle_event(name): CONFIG[name] is looked up first.
StartHandleEvent(name) ==
    /\ event' = name
    /\ idx' = 1
    /\ calls' = <<>>
    /\ op' = <<>>
    /\ tries' = 0
    /\ res' = 0
    /\ sent' = 0
    /\ slept' = 0
    /\ req' = NoRequest
    /\ first' = 0
    /\ saw401' = FALSE
    /\ all202' = TRUE
    /\ outcome' = NoOutcome
    /\ logged' = 0
    /\ IF name \in DOMAIN CONFIG
       THEN pc' = "handle_event" /\ raised' = raised
       ELSE pc' = "crashed" /\ raised' = "KeyError"

(***************************************************************************)
(* Start-up                                                                *)
(***************************************************************************)
\* No answer of the token endpoint yet.
NoResponse == [status |-> 0, scope |-> None, access_token |-> None, refresh_token |-> None]

\* No lone get_state() call.
NoProbe == [screen |-> [r \in Rules |-> 0], evaluated |-> <<>>, result |-> None]

NewClient(client_id, client_secret) ==
    [authenticated |-> FALSE, access_token |-> None, refresh_token |-> None,
     client_id |-> client_id, client_secret |-> client_secret]

Init ==
    /\ pc = "load_config"
    /\ CONFIG = <<>>
    /\ client = NewClient(None, None)
    /\ last_state = None
    /\ event = None
    /\ idx = 0
    /\ calls = <<>>
    /\ op = <<>>
    /\ tries = 0
    /\ res = 0
    /\ sent = 0
    /\ slept = 0
    /\ req = NoRequest
    /\ first = 0
    /\ saw401 = FALSE
    /\ all202 = TRUE
    /\ outcome = NoOutcome
    /\ logged = 0
    /\ raised = None
    /\ tres = NoResponse
    /\ posts = 0
    /\ before = NewClient(None, None)
    /\ probe = NoProbe

LoadConfig ==
    /\ pc = "load_config"
    /\ \/ \E keys \in SUBSET FileKeys, entries \in FileEntries :
              CONFIG' = LoadedConfig(ConfigFile(keys, entries))
       \/ CONFIG' = DefaultConfig
    /\ pc' = "setup"
    /\ UNCHANGED <<client, last_state, event, idx, calls, op, tries, res, sent, slept,
                   req, first, saw401, all202, outcome, logged, raised>>
    /\ UNCHANGED aux

\* The client id and secret read from spotify_secret.key or typed in.
Credentials == {<<"app", "secret">>, <<"", "secret">>, <<"app", "">>}

Setup ==
    /\ pc = "setup"
    /\ \E cred \in Credentials : client' = NewClient(cred[1], cred[2])
    /\ pc' = "authenticate"
    /\ UNCHANGED <<CONFIG, last_state, event, idx, calls, op, tries, res, sent, slept,
                   req, first, saw401, all202, outcome, logged, raised>>
    /\ UNCHANGED aux

(***************************************************************************)
(* spotify_lib: authenticate and refresh                                   *)
(***************************************************************************)
Scopes == "user-modify-playback-state"

\* Python truthiness of an optional string.
Truthy(s) == s # None /\ s # ""

\* What the token endpoint may answer.
TokenResponses ==
    [status : {200, 400}, scope : {None, Scopes, "other"},
     access_token : {None, "t1"}, refresh_token : {None, "r1"}]

\* The first line of refresh.token, when the file can be read.
TokenFile == {"", "r0"}

\* refresh()'s precondition.
RefreshReady(c) == Truthy(c.client_id) /\ Truthy(c.client_secret) /\ Truthy(c.refresh_token)

\* refresh() storing the access token before it compares the scopes.
Refresh_TokenBeforeScope(c, r) ==
    IF r.status = 200 /\ r.scope = Scopes /\ r.access_token # None
    THEN [client |-> [c EXCEPT !.access_token = r.access_token, !.authenticated = TRUE],
          raised |-> None]
    ELSE IF r.status = 200 /\ r.access_token # None
    THEN [client |-> [c EXCEPT !.access_token = r.access_token], raised |-> "InvalidTokenError"]
    ELSE [client |-> c, raised |-> "InvalidTokenError"]

\* refresh() on the answer r: the client afterwards and the exception raised.
Refresh(c, r) ==
    IF r.status = 200 /\ r.scope = Scopes /\ r.access_token # None
    THEN [client |-> [c EXCEPT !.access_token = r.access_token, !.authenticated = TRUE],
          raised |-> None]
    ELSE [client |-> c, raised |-> "InvalidTokenError"]

\* The authorization-code exchange of authenticate() on the answer r.
CodeExchange(c, r) ==
    IF r.status # 200 THEN [client |-> c, raised |-> "AssertionError"]
    ELSE IF r.scope = None THEN [client |-> c, raised |-> "KeyError"]
    ELSE IF r.scope # Scopes THEN [client |-> c, raised |-> "AssertionError"]
    ELSE IF r.access_token = None \/ r.refresh_token = None
        THEN [client |-> c, raised |-> "KeyError"]
    ELSE [client |-> [c EXCEPT !.access_token = r.access_token,
                               !.refresh_token = r.refresh_token,
                               !.authenticated = TRUE],
          raised |-> None]

\* authenticate() returns to setup: its locals are gone.
Returns ==
    /\ tres' = NoResponse
    /\ posts' = 0
    /\ before' = NewClient(None, None)

\* authenticate() up to its first request: refresh.token is read and refresh()
\* posts, or the file cannot be read and the code exchange posts.
Authenticate ==
    /\ pc = "authenticate"
    /\ \/ /\ pc' = "await_code"
          /\ posts' = posts + 1
          /\ UNCHANGED <<client, raised, before>>
       \/ \E tok \in TokenFile :
            /\ client' = [client EXCEPT !.refresh_token = tok]
            /\ before' = client'
            /\ IF RefreshReady(client')
               THEN pc' = "await_refresh" /\ raised' = raised /\ posts' = posts + 1
               ELSE pc' = "crashed" /\ raised' = "InvalidClientError" /\ posts' = posts
    /\ UNCHANGED <<tres, probe>>
    /\ UNCHANGED <<CONFIG, last_state, event, idx, calls, op, tries, res, sent, slept,
                   req, first, saw401, all202, outcome, logged>>

\* The answer to refresh()'s request; InvalidTokenError sends authenticate()
\* on to the code exchange.
RefreshResponse ==
    /\ pc = "await_refresh"
    /\ \E r \in TokenResponses :
        LET out == Refresh(client, r) IN
        /\ client' = out.client
        /\ IF out.raised = None
           THEN pc' = "initial" /\ Returns
           ELSE pc' = "await_code" /\ tres' = r /\ posts' = posts + 1 /\ before' = before
    /\ UNCHANGED probe
    /\ UNCHANGED <<CONFIG, last_state, event, idx, calls, op, tries, res, sent, slept,
                   req, first, saw401, all202, outcome, logged, raised>>

\* The answer to the code exchange, then the write of refresh.token.
CodeResponse ==
    /\ pc = "await_code"
    /\ \E r \in TokenResponses, written \in BOOLEAN :
        LET out == CodeExchange(client, r) IN
        /\ client' = out.client
        /\ IF out.raised # None
           THEN pc' = "crashed" /\ raised' = out.raised /\ tres' = r /\ UNCHANGED <<posts, before>>
           ELSE IF written
           THEN pc' = "initial" /\ raised' = raised /\ Returns
           ELSE pc' = "crashed" /\ raised' = "OSError" /\ tres' = r /\ UNCHANGED <<posts, before>>
    /\ UNCHANGED probe
    /\ UNCHANGED <<CONFIG, last_state, event, idx, calls, op, tries, res, sent, slept,
                   req, first, saw401, all202, outcome, logged>>

(***************************************************************************)
(* main: the poll loop                                                     *)
(***************************************************************************)
InitialState ==
    /\ pc = "initial"
    /\ \E cur_state \in Classifications :
        /\ last_state' = cur_state
        /\ StartHandleEvent(state_map(cur_state))
    /\ UNCHANGED <<CONFIG, client>>
    /\ UNCHANGED aux

\* Variant: the comparison with last_state is missing; every tick dispatches.
StateChanged_Always(cur_state, previous) == TRUE

\* `if cur_state != last_state`
StateChanged(cur_state, previous) == cur_state # previous

Tick ==
    /\ pc = "poll"
    /\ \E cur_state \in Classifications :
        IF StateChanged(cur_state, last_state)
        THEN /\ last_state' = cur_state
             /\ StartHandleEvent(state_map(cur_state))
             /\ UNCHANGED <<CONFIG, client>>
        ELSE UNCHANGED vars
    /\ UNCHANGED aux

(***************************************************************************)
(* handle_event: one action of the list per step                           *)
(***************************************************************************)
HandleEventReturn ==
    /\ pc = "handle_event"
    /\ idx > Len(CONFIG[event])
    /\ pc' = "poll"
    /\ UNCHANGED <<CONFIG, client, last_state, event, idx, calls, op, tries, res, sent,
                   slept, req, first, saw401, all202, outcome, logged, raised>>
    /\ UNCHANGED aux

\* `action_name, *action_args = action` on an empty entry: ValueError, passed over.
NullAction ==
    /\ pc = "handle_event"
    /\ idx <= Len(CONFIG[event])
    /\ CONFIG[event][idx] = <<>>
    /\ idx' = idx + 1
    /\ UNCHANGED <<pc, CONFIG, client, last_state, event, calls, op, tries, res, sent,
                   slept, req, first, saw401, all202, outcome, logged, raised>>
    /\ UNCHANGED aux

\* CFG_MAP[action_name] on a name that is no operation: KeyError, not caught.
UnknownAction ==
    /\ pc = "handle_event"
    /\ idx <= Len(CONFIG[event])
    /\ CONFIG[event][idx] # <<>>
    /\ CONFIG[event][idx][1] \notin DOMAIN CFG_MAP
    /\ pc' = "crashed"
    /\ raised' = "KeyError"
    /\ UNCHANGED <<CONFIG, client, last_state, event, idx, calls, op, tries, res, sent,
                   slept, req, first, saw401, all202, outcome, logged>>
    /\ UNCHANGED aux

\* The operation is called: it raises NotAuthenticatedError at once, or sends
\* its first request.
Invoke ==
    /\ pc = "handle_event"
    /\ idx <= Len(CONFIG[event])
    /\ LET action == CONFIG[event][idx] IN
        /\ action # <<>>
        /\ action[1] \in DOMAIN CFG_MAP
        /\ calls' = Append(calls, action)
        /\ op' = action
        /\ tries' = 0
        /\ res' = 0
        /\ slept' = 0
        /\ first' = 0
        /\ saw401' = FALSE
        /\ all202' = TRUE
        /\ IF MaySend(client)
           THEN /\ sent' = 1
                /\ req' = FirstRequest(action)
                /\ pc' = "await_response"
                /\ outcome' = NoOutcome
                /\ logged' = 0
                /\ UNCHANGED <<client, idx, raised>>
           ELSE /\ sent' = 0
                /\ req' = NoRequest
                /\ Finish(action, Raise("NotAuthenticatedError", ""), client.authenticated)
    /\ UNCHANGED <<CONFIG, last_state, event>>
    /\ UNCHANGED aux

\* The answer to the first request: 202 enters the retry loop (sleep, send
\* again), anything else goes to _parse_common_status.
Response ==
    /\ pc = "await_response"
    /\ \E status_code \in StatusCodes :
        /\ res' = status_code
        /\ first' = status_code
        /\ saw401' = (status_code = 401)
        /\ all202' = (status_code = 202)
        /\ IF status_code = 202
           THEN /\ tries' = 0
                /\ slept' = slept + 1
                /\ sent' = sent + 1
                /\ req' = RetryRequest(op)
                /\ pc' = "await_retry"
                /\ UNCHANGED <<client, idx, outcome, logged, raised>>
           ELSE LET p == ParseCommonStatus(client.authenticated, status_code, ErrorMsg(op[1])) IN
                /\ Finish(op, p.out, p.authenticated)
                /\ UNCHANGED <<tries, slept, sent, req>>
    /\ UNCHANGED <<CONFIG, last_state, event, calls, op>>
    /\ UNCHANGED aux

\* The answer to a request of the retry loop: 204 breaks out and is parsed,
\* the last pass raises TimeoutError, any other pass sleeps and sends again.
RetryResponse ==
    /\ pc = "await_retry"
    /\ \E status_code \in StatusCodes :
        /\ res' = status_code
        /\ saw401' = (saw401 \/ status_code = 401)
        /\ all202' = (all202 /\ status_code = 202)
        /\ IF BreaksLoop(status_code)
           THEN LET p == ParseCommonStatus(client.authenticated, status_code, ErrorMsg(op[1])) IN
                /\ Finish(op, p.out, p.authenticated)
                /\ UNCHANGED <<tries, slept, sent, req>>
           ELSE IF LastTry(tries)
           THEN /\ Finish(op, Raise("TimeoutError", ""), client.authenticated)
                /\ UNCHANGED <<tries, slept, sent, req>>
           ELSE /\ tries' = tries + 1
                /\ slept' = slept + 1
                /\ sent' = sent + 1
                /\ req' = RetryRequest(op)
                /\ UNCHANGED <<pc, client, idx, outcome, logged, raised>>
    /\ UNCHANGED <<CONFIG, last_state, event, calls, op, first>>
    /\ UNCHANGED aux

Next ==
    \/ LoadConfig
    \/ Setup
    \/ Authenticate
    \/ RefreshResponse
    \/ CodeResponse
    \/ InitialState
    \/ Tick
    \/ HandleEventReturn
    \/ NullAction
    \/ UnknownAction
    \/ Invoke
    \/ Response
    \/ RetryResponse

Spec == Init /\ [][Next]_vars

\* The single thread always takes its next step; a crashed process has none.
FairSpec == Spec /\ WF_vars(Next)

(***************************************************************************)
(* Properties                                                              *)
(***************************************************************************)
\* An operation has ended (returned or raised) and nothing was invoked since.
OpEnded == outcome.kind # None

\* Responses the operation in progress (or the last one) has received.
Received == IF pc \in {"await_response", "await_retry"} THEN sent - 1 ELSE sent

\* The poll loop (or the start-up dispatch) has been entered.
Running == last_state # None

\* C1: an operation failing with InvalidToken or NotAuthenticated never ends
\* the process: dispatch absorbs the failure and goes on to the next action.
C1_TokenFailuresAbsorbed ==
    /\ ~(pc = "crashed" /\ raised \in {"InvalidTokenError", "NotAuthenticatedError"})
    /\ (outcome.kind \in {"InvalidTokenError", "NotAuthenticatedError"} => raised # outcome.kind)

\* C2: an operation failing with Timeout is logged as an unhandled error and
\* not raised: dispatch goes on to the next action.
C2_TimeoutLoggedNotRaised ==
    outcome.kind = "TimeoutError" => (logged = 1 /\ raised = None /\ pc # "crashed")

\* C3: dispatching 'unknown' finds an empty action list under every
\* configuration, returns normally and invokes nothing.
C3_UnknownIsEmpty ==
    event = "unknown" =>
        /\ "unknown" \in DOMAIN CONFIG
        /\ CONFIG["unknown"] = <<>>
        /\ calls = <<>>
        /\ pc # "crashed"

\* C4, as claimed: play() answered 202 five times in a row has failed with
\* Timeout after exactly 5 requests.
C4_TimeoutAfterFiveRequests ==
    (op = <<"play">> /\ all202 /\ Received = 5) =>
        (outcome.kind = "TimeoutError" /\ sent = 5)

\* C4, amended: play() answered 202 five times in a row has not failed yet and
\* has a sixth request in flight; answered 202 six times in a row it fails with
\* Timeout after exactly 6 requests; it never sends a seventh, and it has slept
\* once before every request but the first.
C4_TimeoutAfterSixRequests ==
    op = <<"play">> =>
        /\ (all202 /\ Received = 5 => pc = "await_retry" /\ sent = 6 /\ outcome = NoOutcome)
        /\ (all202 /\ Received = 6 => outcome.kind = "TimeoutError" /\ sent = 6)
        /\ sent <= 6
        /\ (sent >= 1 => slept = sent - 1)

C4_Witness ==
    op = <<"play">> /\ all202 /\ Received = 6 /\ outcome.kind = "TimeoutError" /\ slept = 5

\* C5: once a 401 has left the running client unauthenticated, it is
\* authenticated again later; the expiry never ends the process.
C5_SurvivesExpiry ==
    /\ [](Running /\ ~client.authenticated => <>client.authenticated)
    /\ [](raised # "NotAuthenticatedError")

\* C6: an operation that received a 401 to any of its requests ends with the
\* client unauthenticated and fails with InvalidToken.
C6_Any401Expires ==
    (OpEnded /\ saw401) =>
        (~client.authenticated /\ outcome.kind = "InvalidTokenError")

\* C7: pause() whose first response is 401 leaves the client unauthenticated
\* and fails with InvalidToken; dispatch logs no unhandled error for it and
\* does not raise.
C7_Pause401Absorbed ==
    (op = <<"pause">> /\ first = 401) =>
        /\ ~client.authenticated
        /\ outcome.kind = "InvalidTokenError"
        /\ sent = 1
        /\ logged = 0
        /\ raised # "InvalidTokenError"
        /\ (pc = "crashed" => raised = "KeyError")

C7_Witness ==
    /\ op = <<"pause">>
    /\ first = 401
    /\ outcome.kind = "InvalidTokenError"
    /\ pc = "handle_event"
    /\ logged = 0

\* C8: no request is in flight or was sent while the client is
\* unauthenticated: an operation called then fails with NotAuthenticated,
\* having sent nothing.
C8_NoRequestUnauthenticated ==
    /\ (pc \in {"await_response", "await_retry"} => client.authenticated)
    /\ (outcome.kind = "NotAuthenticatedError" =>
            sent = 0 /\ req = NoRequest /\ ~client.authenticated)
    /\ (Running /\ OpEnded /\ ~client.authenticated =>
            \/ outcome.kind = "NotAuthenticatedError"
            \/ outcome.kind = "InvalidTokenError" /\ res = 401 /\ sent = 1)

C8_Witness ==
    /\ outcome.kind = "NotAuthenticatedError"
    /\ ~client.authenticated
    /\ sent = 0
    /\ op \in {<<"play">>, <<"pause">>, <<"set_volume", 80>>}

\* The status-code policy table of the request routine.
PolicyTable(status_code, name) ==
    CASE status_code = 204 -> [kind |-> "ok", msg |-> ""]
      [] status_code = 404 -> [kind |-> "RequestFailedError", msg |-> "Playback device not found"]
      [] status_code = 403 /\ name = "play" ->
            [kind |-> "RequestFailedError", msg |-> "Unable to play"]
      [] status_code = 403 /\ name = "pause" ->
            [kind |-> "RequestFailedError", msg |-> "Unable to pause"]
      [] status_code = 403 /\ name = "set_volume" ->
            [kind |-> "RequestFailedError", msg |-> "Unable to set volume"]
      [] status_code = 401 -> [kind |-> "InvalidTokenError", msg |-> "access_token is invalid"]
      [] OTHER -> [kind |-> "RequestFailedError", msg |-> "Unhandled response code"]

\* C9: when the first response is not 202 the operation ends after that one
\* request with the outcome the policy table gives for the status code, and
\* only a 401 changes the client (its authenticated flag).
C9_PolicyTable ==
    (first # 0 /\ first # 202) =>
        /\ OpEnded
        /\ sent = 1
        /\ outcome.kind = PolicyTable(first, op[1]).kind
        /\ (outcome.kind = "RequestFailedError" => outcome.msg = PolicyTable(first, op[1]).msg)
        /\ client.authenticated = (first # 401)
        /\ client.access_token = "t1"

C9_Witness ==
    /\ op = <<"set_volume", 80>>
    /\ first = 403
    /\ outcome = [kind |-> "RequestFailedError", msg |-> "Unable to set volume"]
    /\ client.authenticated

\* C10: dispatching a state name the configuration has no entry for returns
\* normally, invokes nothing and raises nothing.
C10_AbsentStateIsEmpty ==
    (event # None /\ event \notin DOMAIN CONFIG) =>
        (pc # "crashed" /\ raised = None /\ calls = <<>>)

\* The action entry handle_event is at, when there is one.
AtEntry == Running /\ event \in DOMAIN CONFIG /\ idx \in 1..Len(CONFIG[event])

\* C11: an action entry naming no known operation is skipped: it never ends
\* the process, nothing is invoked for it, and dispatch moves past it.
C11_UnknownActionSkipped ==
    (AtEntry /\ CONFIG[event][idx] # <<>>
             /\ CONFIG[event][idx][1] \notin {"set_volume", "play", "pause"}) =>
        (pc = "handle_event" /\ raised = None)

\* The error messages dispatch treats as expected for an operation: the
\* message of that operation's own 403.
HandledErrorSet(name) ==
    CASE name = "set_volume" -> {"Unable to set volume"}
      [] name = "play" -> {"Unable to play"}
      [] name = "pause" -> {"Unable to pause"}

\* C12: when an operation ends with RequestFailed, dispatch logs nothing if
\* the message is in the operation's handled set and exactly one unhandled
\* error otherwise; either way nothing is raised and dispatch is at the next
\* action of the list.
C12_RequestFailedHandling ==
    [][(pc \in {"await_response", "await_retry"} /\ outcome'.kind = "RequestFailedError") =>
          /\ logged' = (IF outcome'.msg \in HandledErrorSet(op[1]) THEN 0 ELSE 1)
          /\ raised' = None
          /\ pc' = "handle_event"
          /\ idx' = idx + 1
          /\ calls' = calls]_vars

C12_Witness ==
    /\ outcome = [kind |-> "RequestFailedError", msg |-> "Playback device not found"]
    /\ logged = 1
    /\ pc = "handle_event"
    /\ idx = 2
    /\ Len(CONFIG[event]) = 2

\* A step enters handle_event for the state just classified.
Dispatches ==
    /\ event' = state_map(last_state')
    /\ idx' = 1
    /\ calls' = <<>>
    /\ pc' \in {"handle_event", "crashed"}

\* C13: start-up dispatches once, for the initial classification; a tick
\* dispatches exactly when the classified state differs from last_state (a
\* tick that classifies the same state changes nothing); no other step touches
\* last_state or the dispatched event; and last_state is always the state of
\* the most recent dispatch.
C13_DispatchOnChangeOnly ==
    /\ [](Running => event = state_map(last_state))
    /\ [][/\ (pc = "initial" => Dispatches /\ last_state' \in GameState)
          /\ (pc = "poll" => Dispatches /\ last_state' # last_state)
          /\ (pc \notin {"initial", "poll"} => UNCHANGED <<last_state, event>>)]_vars

\* The loop is back at the poll after dispatching a list of two operations.
C13_Witness ==
    /\ pc = "poll"
    /\ last_state = "CHARACTER_SELECT"
    /\ event = "character_select"
    /\ Len(calls) = 2

\* The operations an action list configures: its entries that name an operation.
RECURSIVE ConfiguredCalls(_)
ConfiguredCalls(list) ==
    IF list = <<>> THEN <<>>
    ELSE IF Head(list) # <<>> /\ Head(list)[1] \in {"set_volume", "play", "pause"}
         THEN <<Head(list)>> \o ConfiguredCalls(Tail(list))
         ELSE ConfiguredCalls(Tail(list))

\* handle_event is over: it returned to the poll loop or an exception left it.
DispatchOver == Running /\ event \in DOMAIN CONFIG /\ pc \in {"poll", "crashed"}

\* C14: a dispatch invokes exactly the configured operations, with their
\* arguments, once each and in order; while it runs, what it has invoked is
\* the configured operations up to the entry it is at.
C14_InvokesConfiguredInOrder ==
    /\ (DispatchOver => calls = ConfiguredCalls(CONFIG[event]))
    /\ (Running /\ event \in DOMAIN CONFIG /\ pc = "handle_event" =>
            calls = ConfiguredCalls(SubSeq(CONFIG[event], 1, idx - 1)))

\* C20: an operation that was sent ends after a bounded number of requests:
\* one when the first response is not 202; after a 202 at most 5 more, the
\* retrying stops at the first 204, the operation returns normally if a 204
\* came and fails with Timeout, after the fifth retry, if none did.
C20_RetryBounded ==
    /\ sent <= 6
    /\ tries <= 4
    /\ (pc = "await_retry" => first = 202 /\ res # 204 /\ sent = tries + 2)
    /\ (OpEnded /\ first = 202 =>
            \/ outcome = [kind |-> "ok", msg |-> ""] /\ res = 204 /\ sent \in 2..6
            \/ outcome.kind = "TimeoutError" /\ res # 204 /\ sent = 6)
    /\ (OpEnded /\ first \notin {0, 202} => sent = 1)

\* A 204 to the third retry: the operation returns after 4 requests.
C20_Witness ==
    /\ first = 202
    /\ outcome.kind = "ok"
    /\ res = 204
    /\ sent = 4
    /\ pc = "handle_event"

\* C17: with an empty client id or client secret, authenticate() sends no
\* request on any path and fails with InvalidClient.
C17_EmptyCredentialsRejected ==
    (client.client_id = "" \/ client.client_secret = "") =>
        \/ pc = "authenticate"
        \/ pc = "crashed" /\ raised = "InvalidClientError"

\* C18: a token answer whose granted scopes differ from the requested scopes is
\* fatal: start-up ends there with an authentication failure, the client stays
\* unauthenticated with its access token untouched, and no request of another
\* grant follows the answer.
C18_ScopeMismatchFatal ==
    (tres.status = 200 /\ tres.scope = "other") =>
        /\ pc = "crashed"
        /\ raised \in {"InvalidTokenError", "AssertionError"}
        /\ ~client.authenticated
        /\ client.access_token = None

(***************************************************************************)
(* refresh() called on its own, on any client                              *)
(***************************************************************************)
\* The variables of main and of the request routine, which refresh() and
\* get_state() leave alone.
main == <<CONFIG, last_state, event, idx, calls, op, tries, res, sent, slept,
          req, first, saw401, all202, outcome, logged>>

\* main has not started.
MainIdle ==
    /\ CONFIG = <<>>
    /\ last_state = None
    /\ event = None
    /\ idx = 0
    /\ calls = <<>>
    /\ op = <<>>
    /\ tries = 0
    /\ res = 0
    /\ sent = 0
    /\ slept = 0
    /\ req = NoRequest
    /\ first = 0
    /\ saw401 = FALSE
    /\ all202 = TRUE
    /\ outcome = NoOutcome
    /\ logged = 0

\* The clients refresh() may be called on: any credentials, any tokens.
Clients ==
    [authenticated : BOOLEAN, access_token : {None, "t0"}, refresh_token : {None, "", "r0"},
     client_id : {"", "app"}, client_secret : {"", "secret"}]

RefreshInit ==
    /\ pc = "refresh"
    /\ client \in Clients
    /\ raised = None
    /\ tres = NoResponse
    /\ posts = 0
    /\ before = NewClient(None, None)
    /\ probe = NoProbe
    /\ MainIdle

\* refresh() up to its request: InvalidClientError, or the post.
RefreshCall ==
    /\ pc = "refresh"
    /\ before' = client
    /\ IF RefreshReady(client)
       THEN pc' = "refresh_post" /\ posts' = posts + 1 /\ raised' = raised
       ELSE pc' = "refresh_end" /\ posts' = posts /\ raised' = "InvalidClientError"
    /\ UNCHANGED <<client, tres, probe>>
    /\ UNCHANGED main

\* refresh() from the answer to its return or its InvalidTokenError.
RefreshAnswer ==
    /\ pc = "refresh_post"
    /\ \E r \in TokenResponses :
        LET out == Refresh(client, r) IN
        /\ client' = out.client
        /\ raised' = out.raised
        /\ tres' = r
    /\ pc' = "refresh_end"
    /\ UNCHANGED <<posts, before, probe>>
    /\ UNCHANGED main

RefreshNext ==
    \/ RefreshCall
    \/ RefreshAnswer

RefreshSpec == RefreshInit /\ [][RefreshNext]_vars

\* The server accepted the refresh token: 200 with every field refresh() reads.
Accepted(r) == r.status = 200 /\ r.scope = Scopes /\ r.access_token # None

\* One of the three strings refresh() needs is empty.
SomethingEmpty(c) ==
    \/ c.client_id \in {None, ""}
    \/ c.client_secret \in {None, ""}
    \/ c.refresh_token \in {None, ""}

\* C19: refresh() fails with InvalidClientError and no request when the client
\* id, the client secret or the refresh token is empty, and with
\* InvalidTokenError when the server's answer is not a 200 with every field;
\* a failing call leaves authenticated, access_token and refresh_token as they
\* were; at most one request is sent and none follows the answer; on success
\* authenticated is true and access_token is the token of the answer.
C19_RefreshContract ==
    /\ posts <= 1
    /\ (pc = "refresh_post" => posts = 1 /\ client = before /\ ~SomethingEmpty(before))
    /\ (pc = "refresh_end" /\ SomethingEmpty(before) =>
            raised = "InvalidClientError" /\ posts = 0 /\ tres = NoResponse /\ client = before)
    /\ (pc = "refresh_end" /\ ~SomethingEmpty(before) /\ ~Accepted(tres) =>
            raised = "InvalidTokenError" /\ posts = 1 /\ client = before)
    /\ (pc = "refresh_end" /\ ~SomethingEmpty(before) /\ Accepted(tres) =>
            /\ raised = None /\ posts = 1
            /\ client.authenticated
            /\ client.access_token = tres.access_token
            /\ client.refresh_token = before.refresh_token
            /\ client.client_id = before.client_id
            /\ client.client_secret = before.client_secret)
    /\ (pc = "refresh_end" => ~ENABLED RefreshNext)

C19_Witness ==
    /\ pc = "refresh_end" /\ raised = "InvalidTokenError" /\ tres.status = 200
    /\ tres.scope = Scopes /\ tres.access_token = None
    /\ before.authenticated /\ before.access_token = "t0" /\ client = before

(***************************************************************************)
(* get_state() called on its own, on any screen, one rule at a time        *)
(***************************************************************************)
\* The rule get_state() calls n-th, earlier ones having returned False.
RuleAt_WaitingFirst(n) ==
    CASE n = 1 -> "waiting"
      [] n = 2 -> "in_menu"
      [] n = 3 -> "character_select"

RuleAt(n) ==
    CASE n = 1 -> "in_menu"
      [] n = 2 -> "waiting"
      [] n = 3 -> "character_select"

\* The rule's function on its count of mismatching pixels.
RuleMatches(rule, errors) ==
    CASE rule = "in_menu" -> _in_menu(errors)
      [] rule = "waiting" -> _waiting(errors)
      [] rule = "character_select" -> _in_character_select(errors)

\* What get_state() returns when the rule's function returns True.
StateReturned(rule) ==
    CASE rule = "in_menu" -> "IN_MENU"
      [] rule = "waiting" -> "WAITING"
      [] rule = "character_select" -> "CHARACTER_SELECT"

ClassifyInit ==
    /\ pc = "get_state"
    /\ probe \in {[screen |-> s, evaluated |-> <<>>, result |-> None] : s \in Samples}
    /\ client = NewClient(None, None)
    /\ raised = None
    /\ tres = NoResponse
    /\ posts = 0
    /\ before = NewClient(None, None)
    /\ MainIdle

\* One `if` of get_state(): the rule's function is called; True returns the
\* rule's state, False goes on to the next `if`, or to UNKNOWN after the last.
CallRule ==
    /\ pc = "get_state"
    /\ LET n == Len(probe.evaluated) + 1
           rule == RuleAt(n)
           matched == RuleMatches(rule, probe.screen[rule])
       IN /\ probe' = [probe EXCEPT
                          !.evaluated = Append(@, [rule |-> rule, matched |-> matched]),
                          !.result = IF matched THEN StateReturned(rule)
                                     ELSE IF n = 3 THEN "UNKNOWN" ELSE @]
          /\ pc' = IF matched \/ n = 3 THEN "returned" ELSE pc
    /\ UNCHANGED <<client, raised, tres, posts, before>>
    /\ UNCHANGED main

ClassifyNext ==
    \/ CallRule

ClassifySpec == ClassifyInit /\ [][ClassifyNext]_vars

\* The rules in the order of priority, and the state each stands for.
Priority == <<"in_menu", "waiting", "character_select">>

RuleState(rule) ==
    CASE rule = "in_menu" -> "IN_MENU"
      [] rule = "waiting" -> "WAITING"
      [] rule = "character_select" -> "CHARACTER_SELECT"

\* The rules evaluated so far, and whether any of the first n matched.
EvaluatedRules == [i \in 1..Len(probe.evaluated) |-> probe.evaluated[i].rule]

MatchedWithin(n) == \E i \in 1..n : probe.evaluated[i].matched

\* C15: get_state evaluates the rules in the order in_menu, waiting,
\* character_select, stops at the first that matches and returns its state; a
\* screen with no mismatch against a rule is classified as that rule's state
\* when no earlier rule matches; UNKNOWN is returned exactly when none matches.
C15_FirstMatchWins ==
    LET n == Len(probe.evaluated) IN
    /\ n <= 3
    /\ EvaluatedRules = SubSeq(Priority, 1, n)
    /\ ~MatchedWithin(n - 1)
    /\ (pc = "get_state" => ~MatchedWithin(n))
    /\ (pc = "returned" =>
          /\ n >= 1
          /\ probe.result = get_state(probe.screen)
          /\ IF probe.evaluated[n].matched
             THEN probe.result = RuleState(Priority[n])
             ELSE n = 3 /\ probe.result = "UNKNOWN"
          /\ (probe.result = "UNKNOWN" <=> (n = 3 /\ ~MatchedWithin(3)))
          /\ \A i \in 1..n : probe.screen[Priority[i]] = 0 => probe.result = RuleState(Priority[i]))

C15_Witness ==
    /\ pc = "returned" /\ probe.result = "WAITING" /\ Len(probe.evaluated) = 2
    /\ probe.screen["in_menu"] = 4 /\ probe.screen["waiting"] = 0
    /\ probe.screen["character_select"] = 0

\* The thresholds of the rules.
Threshold(rule) ==
    CASE rule = "in_menu" -> 2
      [] rule = "waiting" -> 1
      [] rule = "character_select" -> 2

\* C16: a rule matches exactly when its count of mismatching pixels is strictly
\* below its threshold (2 for in_menu, 1 for waiting, 2 for character_select): a
\* count equal to the threshold does not match.
C16_StrictlyBelowThreshold ==
    \A i \in 1..Len(probe.evaluated) :
        LET e == probe.evaluated[i] IN
        /\ e.matched = (probe.screen[e.rule] < Threshold(e.rule))
        /\ (probe.screen[e.rule] = Threshold(e.rule) => ~e.matched)

C16_Witness ==
    /\ pc = "returned" /\ probe.result = "UNKNOWN"
    /\ probe.screen["in_menu"] = 2 /\ probe.screen["waiting"] = 1
    /\ probe.screen["character_select"] = 2

\* C21: every request sent for set_volume(v), the first one and each one of the
\* retry loop, carries the query parameter volume_percent = v, v being the
\* configured value as it is.
C21_VolumeOnEveryRequest ==
    (pc \in {"await_response", "await_retry"} /\ op # <<>> /\ op[1] = "set_volume") =>
        req = [url |-> "api.spotify.com/v1/me/player/volume",
               params |-> <<"volume_percent", op[2]>>]

====
